---- MODULE Spec2Model ----
(***************************************************************************)
(* Model of the text-to-SQL command line program (src/main.py and          *)
(* src/db_maker.py): the operator read loop, the query synthesizer          *)
(* (generate_sql_query), the repair loop (execute_sql_query), the query     *)
(* repairer (correct_sql_query), the syntax validator (is_valid_sql) and    *)
(* the query executor (DatabaseMaker.run_sql_query).                        *)
(*                                                                          *)
(* Query strings are sequences of one-character strings, so that            *)
(* str.replace and str.strip are computed character by character.           *)
(* Error messages, questions and input lines are atomic strings.            *)
(* The language model, the SQLite store and sqlparse are the environment:   *)
(* their results are chosen nondeterministically from small sets.           *)
(***************************************************************************)
EXTENDS Integers, Sequences, FiniteSets, TLC

\* ------------------------------------------------------------------ bounds

\* largest max_attempts a direct call of execute_sql_query is given
MaxBudget == 4

\* number of chunks a raw text-generation response is assembled from
MaxChunks == 3

\* the history counters stop counting at this value, which no call of the
\* loop with the default budget reaches
MaxCount == 32

\* largest number of columns of a table of the store
MaxColumns == 2

\* ------------------------------------------------------- program constants

\* default of the parameter max_attempts of execute_sql_query
DefaultMaxAttempts == 30

\* default of the parameter attempt of execute_sql_query
FirstAttempt == 1

\* ------------------------------------------------------------------ strings

\* the backquote character (a backquote cannot be written in a TLA+ string)
BT == "BACKQUOTE"

Fence == <<BT, BT, BT>>

FenceSql == <<BT, BT, BT, "s", "q", "l">>

\* the characters str.strip() removes (those that occur in the model)
Whitespace == {" ", "\n", "\t"}

\* s[i..] and s[..i] helpers
DropFirst(s, n) == SubSeq(s, n + 1, Len(s))

StartsWith(s, p) == Len(s) >= Len(p) /\ SubSeq(s, 1, Len(p)) = p

EndsWith(s, p) == Len(s) >= Len(p) /\ SubSeq(s, Len(s) - Len(p) + 1, Len(s)) = p

\* Python str.replace(old, new) for a non-empty old: leftmost occurrences,
\* non-overlapping, scanning left to right; the result is not rescanned.
RECURSIVE Replace(_, _, _)
Replace(s, old, new) ==
    IF Len(s) < Len(old) THEN s
    ELSE IF StartsWith(s, old)
         THEN new \o Replace(DropFirst(s, Len(old)), old, new)
         ELSE <<Head(s)>> \o Replace(Tail(s), old, new)

RECURSIVE LStrip(_)
LStrip(s) ==
    IF s # <<>> /\ Head(s) \in Whitespace THEN LStrip(Tail(s)) ELSE s

RECURSIVE RStrip(_)
RStrip(s) ==
    IF s # <<>> /\ s[Len(s)] \in Whitespace
    THEN RStrip(SubSeq(s, 1, Len(s) - 1))
    ELSE s

\* Python str.strip()
Strip(s) == RStrip(LStrip(s))

\* generate_sql_query, lines 145-146: only the ```sql markers are removed
\* (the bare ``` markers are left in)
CleanAnswerSqlOnly(answer) == Strip(Replace(answer, FenceSql, <<>>))

\* generate_sql_query, lines 145-146
CleanAnswer(answer) ==
    Strip(Replace(Replace(answer, FenceSql, <<>>), Fence, <<>>))

\* correct_sql_query, line 236
CleanCorrection(content) == Strip(content)

\* ------------------------------------------------------------------- schema

\* TABLE_NAME, line 17
TABLE_NAME == "healthcare"

QUOTE == "\""

RECURSIVE Join(_, _)
\* Python sep.join(parts)
Join(sep, parts) ==
    IF parts = <<>> THEN <<>>
    ELSE IF Len(parts) = 1 THEN Head(parts)
    ELSE Head(parts) \o sep \o Join(sep, Tail(parts))

\* PRAGMA table_info: one row (cid, name, type, notnull, dflt_value, pk)
\* per column of the table, in the order of the table's columns
TableInfo(decls) ==
    [i \in 1..Len(decls) |->
        <<i - 1, decls[i][1], decls[i][2], 0, "NULL", 0>>]

\* get_table_schema, lines 68-76: PRAGMA table_info(table_name) and
\* fetchall(); for a table the store does not have, SQLite yields no row
GetTableSchema(store, table_name) ==
    IF table_name \in DOMAIN store THEN TableInfo(store[table_name]) ELSE <<>>

\* the entry written without the quotes around the column name
FormatColumnUnquoted(col) == col[2] \o <<" ">> \o col[3]

\* format_table_schema, lines 84-86: f'"{col[1]}" {col[2]}'
\* (Python indices 1 and 2 are positions 2 and 3 of the row)
FormatColumn(col) == <<QUOTE>> \o col[2] \o <<QUOTE, " ">> \o col[3]

\* format_table_schema, lines 82-88
FormatTableSchema(table_schema) ==
    Join(<<",", " ">>,
         [i \in 1..Len(table_schema) |-> FormatColumn(table_schema[i])])

\* --------------------------------------------------------- the environment

Age == <<"A", "g", "e">>

Hospital == <<"H", "o", "s", "p", "i", "t", "a", "l">>

MedicalCondition ==
    <<"M", "e", "d", "i", "c", "a", "l", " ",
      "C", "o", "n", "d", "i", "t", "i", "o", "n">>

INTEGER == <<"I", "N", "T", "E", "G", "E", "R">>

REAL == <<"R", "E", "A", "L">>

TEXT == <<"T", "E", "X", "T">>

ColumnNames == {Age, Hospital, MedicalCondition}

\* the types create_table_from_df declares, db_maker.py lines 58-63
ColumnTypes == {INTEGER, REAL, TEXT}

\* the column declarations of a table: at least one column, distinct names
Declarations ==
    { d \in UNION { [1..k -> ColumnNames \X ColumnTypes] : k \in 1..MaxColumns } :
        \A i, j \in 1..Len(d) : d[i][1] = d[j][1] => i = j }

\* the store after csv_to_sqlite(CSV_FILE_PATH, TABLE_NAME), line 276
LoadedStore == [t \in {TABLE_NAME} |-> << <<Age, INTEGER>>, <<Hospital, TEXT>> >>]

\* stores with the table TABLE_NAME, and stores that only have the table
\* health of db_maker.py line 100
Stores ==
    { [t \in {TABLE_NAME} |-> d] : d \in Declarations }
    \cup { [t \in {"health"} |-> d] : d \in Declarations }

\* lines the operator types: two questions and the token exit
Questions == {"how many hospitals", "how many patients"}

Lines == Questions \cup {"exit"}

\* raw contents the text-generation call returns to generate_sql_query
Responses ==
    { <<>>,
      FenceSql \o <<"\n", "A", "\n">> \o Fence,
      FenceSql \o <<"\n">> \o Fence,
      <<"B">> }

\* raw contents the text-generation call returns to correct_sql_query
Corrections ==
    { <<>>,
      <<"A", "\n">>,
      Fence \o <<"B">> \o Fence }

\* candidates a direct caller of execute_sql_query passes in
Candidates == { <<"A">>, <<"B">> }

\* pieces the raw responses of the fence-stripping check are assembled from
Chunks ==
    { Fence, FenceSql, <<BT>>, <<BT, BT>>, <<"s", "q", "l">>,
      <<" ">>, <<"\n">>, <<"A">> }

RECURSIVE Concat(_)
Concat(ss) == IF ss = <<>> THEN <<>> ELSE Head(ss) \o Concat(Tail(ss))

RawResponses ==
    { Concat(cs) : cs \in UNION { [1..k -> Chunks] : k \in 0..MaxChunks } }

\* what completion(...) does: it raises, or the message content is None,
\* or the message content is a text
CompletionOutcomes(texts) ==
    { [kind |-> "raise", content |-> <<>>], [kind |-> "none", content |-> <<>>] }
    \cup { [kind |-> "text", content |-> t] : t \in texts }

\* what cursor.fetchall() yields
FetchResults ==
    { <<>>,
      << <<1, "a">>, <<2, "b">> >>,
      << <<2, "b">>, <<1, "a">> >> }

ErrorMessages == {"no such column: Hospital", "near FROM: syntax error"}

\* what the store does with a query inside run_sql_query: the statement runs
\* and rows are fetched, or sqlite3 raises an sqlite3.Error with a message
StoreOutcomes ==
    { [kind |-> "rows", class |-> "none", results |-> r, message |-> ""] :
        r \in FetchResults }
    \cup { [kind |-> "error", class |-> "sqlite3.Error", results |-> <<>>,
            message |-> m] : m \in ErrorMessages }

\* what sqlparse.parse(query) does: it returns, or it raises
ParseOutcomes == {"parsed", "raises"}

\* max_attempts values of direct calls of execute_sql_query
BudgetValues == ((0 - 1)..MaxBudget) \cup {DefaultMaxAttempts}

\* ------------------------------------------------------------------- state

VARIABLES
    pc,               \* position of the single thread of control
    user_prompt,      \* main: the line read
    user_question,    \* handle_user_question / execute_sql_query parameter
    answer,           \* generate_sql_query: raw content of the response
    query,            \* execute_sql_query: the current candidate
    attempt,          \* execute_sql_query: parameter attempt
    max_attempts,     \* execute_sql_query: parameter max_attempts
    error_message,    \* execute_sql_query: str(e) of the caught error
    corrected_query,  \* execute_sql_query: result of correct_sql_query
    response,         \* value execute_sql_query returned
    exc,              \* class of the exception that is propagating
    output,           \* main: what print(answer) wrote last
    tables,           \* the store: the column declarations of its tables
    table_schema,     \* generate/correct_sql_query: get_table_schema result
    formatted_schema, \* the schema text put into the prompt
    execCalls,        \* history: run_sql_query calls of this question
    repairCalls,      \* history: correct_sql_query calls of this question
    validatorCalls,   \* history: is_valid_sql calls of this question
    lastExec,         \* history: outcome of the last run_sql_query call
    repairIn,         \* history: arguments of the last correct_sql_query call
    queryValidated,   \* history: is_valid_sql accepted the current candidate
    lastVerdict,      \* history: result of the last is_valid_sql call
    prev_attempt      \* history: the previous question ended at attempt 1
                      \* (value 1) or later (value 2); 0 before any ended

vars ==
    << pc, user_prompt, user_question, answer, query, attempt, max_attempts, error_message,
       corrected_query, response, exc, output, tables, table_schema,
       formatted_schema, execCalls, repairCalls,
       validatorCalls, lastExec, repairIn, queryValidated, lastVerdict,
       prev_attempt >>

NoExec ==
    [kind |-> "none", attempt |-> 0, query |-> <<>>, returned |-> <<>>,
     message |-> ""]

NoRepair ==
    [attempt |-> 0, query |-> <<>>, error_message |-> "", user_question |-> "",
     result |-> "none"]

\* a history counter after one more call
Count(n) == IF n < MaxCount THEN n + 1 ELSE n

\* the locals and the history of one question, before anything ran
FreshQuestion(question) ==
    /\ user_question' = question
    /\ answer' = <<>>
    /\ table_schema' = <<>>
    /\ formatted_schema' = <<>>
    /\ error_message' = ""
    /\ corrected_query' = <<>>
    /\ response' = <<>>
    /\ exc' = "none"
    /\ execCalls' = 0
    /\ repairCalls' = 0
    /\ validatorCalls' = 0
    /\ lastExec' = NoExec
    /\ repairIn' = NoRepair
    /\ queryValidated' = FALSE
    /\ lastVerdict' = "none"

InitCommon ==
    /\ user_prompt = ""
    /\ user_question = ""
    /\ answer = <<>>
    /\ query = <<>>
    /\ attempt = 0
    /\ max_attempts = 0
    /\ error_message = ""
    /\ corrected_query = <<>>
    /\ response = <<>>
    /\ exc = "none"
    /\ output = <<>>
    /\ table_schema = <<>>
    /\ formatted_schema = <<>>
    /\ execCalls = 0
    /\ repairCalls = 0
    /\ validatorCalls = 0
    /\ lastExec = NoExec
    /\ repairIn = NoRepair
    /\ queryValidated = FALSE
    /\ lastVerdict = "none"
    /\ prev_attempt = 0

\* the program at its first input() call
Init == pc = "input" /\ tables = LoadedStore /\ InitCommon

\* ------------------------------------------------- the pieces of the code

\* run_sql_query, line 92: return results if results else []
ResultsOrEmpty(results) == IF results # <<>> THEN results ELSE <<>>

\* DatabaseMaker.run_sql_query: the rows, or the sqlite3.Error re-raised
RunSqlQuery(store) ==
    IF store.kind = "rows"
    THEN [kind |-> "rows", class |-> "none",
          returned |-> ResultsOrEmpty(store.results), message |-> ""]
    ELSE [kind |-> "error", class |-> store.class,
          returned |-> <<>>, message |-> store.message]

\* an except clause that names another exception class
ExceptValueError(class) == class = "ValueError"

\* execute_sql_query, line 168: except sqlite3.Error as e
ExceptSqliteError(class) == class = "sqlite3.Error"

\* the message replaced by a fixed text
ErrorStrGeneric(e) == "error"

\* execute_sql_query, line 171: error_message = str(e)
ErrorStr(e) == e.message

\* the budget test off by one: attempt > max_attempts
MaxAttemptsExceeded(a, m) == a > m

\* execute_sql_query, line 173: if attempt >= max_attempts
MaxAttemptsReached(a, m) == a >= m

\* the rows dropped on the way out
SuccessReturnEmpty(rows) == <<>>

\* execute_sql_query, lines 165-167: return response
SuccessReturn(rows) == rows

\* the error message and the question passed in each other's place
RepairArgsSwapped(q, message, question) ==
    [query |-> q, error_message |-> question, user_question |-> message]

\* execute_sql_query, line 177: the arguments of correct_sql_query
RepairArgs(q, message, question) ==
    [query |-> q, error_message |-> message, user_question |-> question]

\* the attempt number carried on from the previous question
StartAttemptCarried(previous) == previous + 1

\* handle_user_question, line 257: execute_sql_query is called without the
\* argument attempt, so it starts at the default 1 whatever attempt the
\* previous question ended at
StartAttempt(previous) == FirstAttempt

\* the recursive call made with the attempt number unchanged
NextAttemptSame(a) == a

\* execute_sql_query, line 180: attempt + 1
NextAttempt(a) == a + 1

\* a string taken as true whatever it holds
TruthyAlways(str) == TRUE

\* execute_sql_query, line 178: the truth value of corrected_query in
\* "if corrected_query and ...": an empty string is false
Truthy(str) == str # <<>>

\* the retry decided on the emptiness test alone
RetryIfNonEmpty(corrected, valid) == corrected # <<>>

\* execute_sql_query, line 178: if corrected_query and is_valid_sql(...)
RetryCondition(corrected, valid) == corrected # <<>> /\ valid

\* is_valid_sql: True when sqlparse.parse returns, False when it raises
IsValidSql(parse) == parse = "parsed"

\* ------------------------------------------------------------- the actions

\* execute_sql_query, lines 163-175: one call of run_sql_query and what the
\* loop does with its outcome, up to the call of correct_sql_query
execute_sql_query ==
    /\ pc = "execute"
    /\ \E store \in StoreOutcomes :
         LET r == RunSqlQuery(store) IN
         /\ execCalls' = Count(execCalls)
         /\ lastExec' = [kind |-> r.kind, attempt |-> attempt, query |-> query,
                         returned |-> r.returned, message |-> r.message]
         /\ IF r.kind = "rows"
            THEN /\ pc' = "returned"
                 /\ response' = SuccessReturn(r.returned)
                 /\ UNCHANGED <<error_message, exc>>
            ELSE IF ~ExceptSqliteError(r.class)
            THEN /\ pc' = "raised"
                 /\ exc' = r.class
                 /\ UNCHANGED <<error_message, response>>
            ELSE /\ error_message' = ErrorStr(r)
                 /\ exc' = exc
                 /\ IF MaxAttemptsReached(attempt, max_attempts)
                    THEN pc' = "returned" /\ response' = <<>>
                    ELSE pc' = "correct" /\ response' = response
    /\ UNCHANGED << prev_attempt, user_prompt, user_question, answer, query, attempt,
                    max_attempts, corrected_query, output, tables,
                    table_schema, formatted_schema, repairCalls,
                    validatorCalls, repairIn, queryValidated, lastVerdict >>

\* execute_sql_query, lines 177-178 with correct_sql_query, lines 185-238:
\* the repair call and the emptiness test of its result
correct_sql_query ==
    /\ pc = "correct"
    /\ \E out \in CompletionOutcomes(Corrections) :
         LET args == RepairArgs(query, error_message, user_question) IN
         /\ table_schema' = GetTableSchema(tables, TABLE_NAME)
         /\ formatted_schema' = FormatTableSchema(table_schema')
         /\ repairCalls' = Count(repairCalls)
         /\ repairIn' = [attempt |-> attempt, query |-> args.query,
                         error_message |-> args.error_message,
                         user_question |-> args.user_question,
                         result |-> IF out.kind # "text" THEN "raised"
                                    ELSE IF CleanCorrection(out.content) = <<>>
                                    THEN "empty" ELSE "text"]
         /\ IF out.kind = "raise"
            THEN /\ pc' = "raised"
                 /\ exc' = "GenerationFailure"
                 /\ UNCHANGED <<corrected_query, response>>
            ELSE IF out.kind = "none"
            THEN /\ pc' = "raised"
                 /\ exc' = "AttributeError"
                 /\ UNCHANGED <<corrected_query, response>>
            ELSE /\ corrected_query' = CleanCorrection(out.content)
                 /\ exc' = exc
                 /\ IF ~Truthy(corrected_query')
                    THEN pc' = "returned" /\ response' = <<>>
                    ELSE pc' = "validate" /\ response' = response
    /\ UNCHANGED << prev_attempt, user_prompt, user_question, answer, query, attempt,
                    max_attempts, error_message, output, tables, execCalls,
                    validatorCalls, lastExec, queryValidated, lastVerdict >>

\* execute_sql_query, lines 178-183 with is_valid_sql, lines 261-270:
\* the validator call on a non-empty repaired candidate, then the
\* recursive call with attempt + 1 or the empty result
is_valid_sql ==
    /\ pc = "validate"
    /\ \E parse \in ParseOutcomes :
         LET valid == IsValidSql(parse) IN
         /\ validatorCalls' = Count(validatorCalls)
         /\ lastVerdict' = IF valid THEN "accepted" ELSE "rejected"
         /\ IF RetryCondition(corrected_query, valid)
            THEN /\ query' = corrected_query
                 /\ attempt' = NextAttempt(attempt)
                 /\ queryValidated' = valid
                 /\ pc' = "execute"
                 /\ response' = response
            ELSE /\ pc' = "returned"
                 /\ response' = <<>>
                 /\ UNCHANGED <<query, attempt, queryValidated>>
    /\ UNCHANGED << prev_attempt, user_prompt, user_question, answer, max_attempts,
                    error_message, corrected_query, exc, output, tables,
                    table_schema, formatted_schema, execCalls,
                    repairCalls, lastExec, repairIn >>

\* __main__, lines 279-284: input(), the exit test, the call of
\* handle_user_question
main_input ==
    /\ pc = "input"
    /\ \E line \in Lines :
         /\ user_prompt' = line
         /\ IF line = "exit"
            THEN /\ pc' = "exited"
                 /\ UNCHANGED << user_question, answer, query, attempt,
                                 max_attempts, error_message, corrected_query,
                                 table_schema, formatted_schema,
                                 response, exc, execCalls, repairCalls,
                                 validatorCalls, lastExec, repairIn,
                                 queryValidated, lastVerdict >>
            ELSE /\ pc' = "generate"
                 /\ FreshQuestion(line)
                 /\ query' = <<>>
                 /\ attempt' = 0
                 /\ max_attempts' = 0
    /\ UNCHANGED <<output, tables, prev_attempt>>

\* handle_user_question, lines 254-257 with generate_sql_query, lines
\* 130-148: the text-generation call, the fence stripping, and the call
\* execute_sql_query(sql_query, user_question) with the default parameters
Generate(texts) ==
    /\ pc = "generate"
    /\ table_schema' = GetTableSchema(tables, TABLE_NAME)
    /\ formatted_schema' = FormatTableSchema(table_schema')
    /\ \E out \in CompletionOutcomes(texts) :
         IF out.kind = "raise"
         THEN /\ pc' = "raised"
              /\ exc' = "GenerationFailure"
              /\ UNCHANGED <<answer, query, attempt, max_attempts>>
         ELSE IF out.kind = "none"
         THEN /\ pc' = "raised"
              /\ exc' = "AttributeError"
              /\ UNCHANGED <<answer, query, attempt, max_attempts>>
         ELSE /\ answer' = out.content
              /\ query' = CleanAnswer(out.content)
              /\ attempt' = StartAttempt(prev_attempt)
              /\ max_attempts' = DefaultMaxAttempts
              /\ exc' = exc
              /\ pc' = "execute"
    /\ UNCHANGED << prev_attempt, user_prompt, user_question, error_message,
                    corrected_query, response, output, tables, execCalls,
                    repairCalls,
                    validatorCalls, lastExec, repairIn, queryValidated,
                    lastVerdict >>

generate_sql_query == Generate(Responses)

\* the loop going back to input() without printing the answer
main_print_nothing ==
    /\ pc = "returned"
    /\ pc' = "input"
    /\ UNCHANGED << prev_attempt, user_prompt, user_question, answer, query, attempt,
                    max_attempts, error_message, corrected_query, response,
                    exc, output, tables, table_schema, formatted_schema,
                    execCalls, repairCalls, validatorCalls,
                    lastExec, repairIn, queryValidated, lastVerdict >>

\* __main__, line 285: print(answer), then back to input()
main_print ==
    /\ pc = "returned"
    /\ output' = response
    /\ prev_attempt' = (IF attempt > 1 THEN 2 ELSE 1)
    /\ pc' = "input"
    /\ UNCHANGED << user_prompt, user_question, answer, query, attempt,
                    max_attempts, error_message, corrected_query, response,
                    exc, tables, table_schema, formatted_schema, execCalls,
                    repairCalls, validatorCalls, lastExec,
                    repairIn, queryValidated, lastVerdict >>

\* __main__, lines 278-285: the while loop has no try statement, so an
\* exception leaving handle_user_question ends the process
main_uncaught ==
    /\ pc = "raised"
    /\ pc' = "crashed"
    /\ UNCHANGED << prev_attempt, user_prompt, user_question, answer, query, attempt,
                    max_attempts, error_message, corrected_query, response,
                    exc, output, tables, table_schema, formatted_schema,
                    execCalls, repairCalls, validatorCalls,
                    lastExec, repairIn, queryValidated, lastVerdict >>

Next ==
    \/ main_input
    \/ generate_sql_query
    \/ execute_sql_query
    \/ correct_sql_query
    \/ is_valid_sql
    \/ main_print
    \/ main_uncaught

Spec == Init /\ [][Next]_vars

\* ----------------------------------- execute_sql_query called on its own

\* a caller of execute_sql_query(query, user_question, 1, max_attempts),
\* line 150, with any candidate, question and max_attempts
call_execute_sql_query ==
    /\ pc \in {"idle", "returned", "raised"}
    /\ \E q \in Questions, cand \in Candidates, m \in BudgetValues :
         /\ FreshQuestion(q)
         /\ query' = cand
         /\ attempt' = FirstAttempt
         /\ max_attempts' = m
    /\ pc' = "execute"
    /\ UNCHANGED <<user_prompt, output, tables, prev_attempt>>

InitLoop == pc = "idle" /\ tables = LoadedStore /\ InitCommon

NextLoop ==
    \/ call_execute_sql_query
    \/ execute_sql_query
    \/ correct_sql_query
    \/ is_valid_sql

SpecLoop == InitLoop /\ [][NextLoop]_vars

\* every collaborator call returns or raises: a pending run_sql_query,
\* correct_sql_query or is_valid_sql step is eventually taken (the program
\* is single-threaded and these calls block); the caller is not obliged to
\* call again
SpecLoopFair ==
    /\ SpecLoop
    /\ WF_vars(execute_sql_query)
    /\ WF_vars(correct_sql_query)
    /\ WF_vars(is_valid_sql)

\* --------------------------- generate_sql_query on any assembled response

generate_any_response == Generate(RawResponses)

InitSynth == pc = "generate" /\ tables = LoadedStore /\ InitCommon

NextSynth == generate_any_response

SpecSynth == InitSynth /\ [][NextSynth]_vars

\* --------------------------------- generate_sql_query on any store content

InitSchema == pc = "generate" /\ tables \in Stores /\ InitCommon

NextSchema == generate_sql_query

SpecSchema == InitSchema /\ [][NextSchema]_vars

\* ------------------------------------------------------------- properties

Max(a, b) == IF a >= b THEN a ELSE b

\* the question's handling is over: execute_sql_query returned and main
\* printed, or is about to print, or has left the loop on exit
AfterLoop == pc \in {"returned", "input", "exited"}

\* every run_sql_query call of this execute_sql_query call failed and every
\* repair was non-empty and accepted: the last executor call failed, and
\* each repair call was followed by a further executor call
AllFailedAllRepaired ==
    /\ pc = "returned"
    /\ lastExec.kind = "error"
    /\ repairCalls = execCalls - 1

\* C1 as stated: when execute_sql_query (started with attempt = 1) has
\* returned, it made at most max_attempts calls of run_sql_query, for any
\* max_attempts.
C1_AtMostMaxAttempts == pc = "returned" => execCalls <= max_attempts

\* C1 amended: one call of execute_sql_query started with attempt = 1 makes
\* at most max(1, max_attempts) calls of run_sql_query, at every moment and
\* for every max_attempts, whatever the executor, repairer and validator do.
C1_TerminationBound == execCalls <= Max(1, max_attempts)

C1_Witness ==
    /\ pc = "returned"
    /\ lastExec.kind = "error"
    /\ max_attempts = 3
    /\ execCalls = 3

\* C2: when every run_sql_query call failed and every repair was non-empty
\* and accepted, the loop with max_attempts = N >= 1 has made exactly N
\* run_sql_query calls and returns the empty sequence.
C2_AttemptCounting ==
    (AllFailedAllRepaired /\ max_attempts >= 1)
        => (execCalls = max_attempts /\ response = <<>>)

C2_Witness ==
    /\ AllFailedAllRepaired
    /\ max_attempts = 3
    /\ execCalls = 3
    /\ repairCalls = 2
    /\ validatorCalls = 2
    /\ response = <<>>

\* C3: a successful run_sql_query call ends the loop: the loop returns
\* exactly the rows that call returned, no executor or repairer call follows
\* it, and a success on the first candidate means one executor call and no
\* repairer call.
C3_ImmediateSuccess ==
    lastExec.kind = "rows" =>
        /\ AfterLoop
        /\ response = lastExec.returned
        /\ execCalls = lastExec.attempt
        /\ repairCalls = lastExec.attempt - 1
        /\ (lastExec.attempt = FirstAttempt =>
                execCalls = 1 /\ repairCalls = 0)

C3_Witness ==
    /\ pc = "returned"
    /\ lastExec.kind = "rows"
    /\ lastExec.attempt = FirstAttempt
    /\ execCalls = 1
    /\ repairCalls = 0
    /\ response = << <<1, "a">>, <<2, "b">> >>

\* C4: once is_valid_sql has rejected a repaired candidate, the loop is over
\* with the empty sequence, and the last executor and repairer calls of the
\* question are those of the attempt whose repair was rejected.
C4_ValidatorShortCircuit ==
    lastVerdict = "rejected" =>
        /\ AfterLoop
        /\ response = <<>>
        /\ execCalls = attempt
        /\ repairCalls = attempt
        /\ lastExec.attempt = attempt
        /\ repairIn.attempt = attempt

C4_Witness ==
    /\ lastVerdict = "rejected"
    /\ pc = "returned"
    /\ execCalls = 2
    /\ repairCalls = 2
    /\ response = <<>>

\* C5: at every correct_sql_query call, the error message it receives is the
\* message of the error run_sql_query raised on the same attempt, unchanged.
C5_ErrorMessageThreading ==
    [][ repairCalls' = repairCalls + 1 =>
            /\ lastExec.kind = "error"
            /\ lastExec.attempt = attempt
            /\ repairIn'.attempt = lastExec.attempt
            /\ repairIn'.error_message = lastExec.message ]_vars

C5_Witness ==
    /\ pc = "validate"
    /\ repairIn.attempt = 2
    /\ lastExec.attempt = 2
    /\ lastExec.message = "near FROM: syntax error"
    /\ repairIn.error_message = "near FROM: syntax error"

C7_ReadLoopSurvives == pc \in {"exited", "crashed"} => user_prompt = "exit"

\* C8: the sqlite3.Error of a failed run_sql_query call never propagates out
\* of execute_sql_query; the failure of the current attempt leads to a
\* correct_sql_query call or to the empty result.
C8_ExecutionErrorsCaught ==
    /\ exc # "sqlite3.Error"
    /\ (lastExec.kind = "error" /\ lastExec.attempt = attempt) =>
          \/ pc = "correct"
          \/ repairIn.attempt = attempt
          \/ (AfterLoop /\ response = <<>>)

C8_Witness ==
    /\ pc = "returned"
    /\ lastExec.kind = "error"
    /\ execCalls = 2
    /\ repairCalls = 2
    /\ error_message = lastExec.message
    /\ exc = "none"
    /\ response = <<>>

\* C9: generate_sql_query never returns an empty candidate, so the candidate
\* about to be passed to run_sql_query is never empty.
C9_NoEmptyCandidate == pc = "execute" => query # <<>>

\* C10: the candidate generate_sql_query returns has no leading or trailing
\* code-fence marker and no leading or trailing whitespace.
C10_FenceStripping ==
    (pc = "execute" /\ execCalls = 0 /\ attempt = FirstAttempt) =>
        /\ ~StartsWith(query, Fence)
        /\ ~EndsWith(query, Fence)
        /\ ~EndsWith(query, FenceSql)
        /\ (query # <<>> =>
                Head(query) \notin Whitespace
                /\ query[Len(query)] \notin Whitespace)

C10_Witness ==
    /\ pc = "execute"
    /\ answer = <<BT>> \o FenceSql \o <<BT, BT>>
    /\ query = <<>>

\* C11: describing the schema of a table the store does not have signals
\* SchemaNotFound; generate_sql_query does not go on with a schema description.
C11_SchemaNotFound ==
    (pc \in {"execute", "raised"} /\ TABLE_NAME \notin DOMAIN tables)
        => exc = "SchemaNotFound"

\* position of the first character of the entry of column i in the text
RECURSIVE EntryStart(_, _)
EntryStart(decls, i) ==
    IF i = 1 THEN 1
    ELSE EntryStart(decls, i - 1)
         + Len(decls[i - 1][1]) + Len(decls[i - 1][2]) + 5

\* the text has, from position p on: quote, name, quote, space, type
EntryAt(text, p, name, type) ==
    /\ text[p] = QUOTE
    /\ SubSeq(text, p + 1, p + Len(name)) = name
    /\ text[p + Len(name) + 1] = QUOTE
    /\ text[p + Len(name) + 2] = " "
    /\ SubSeq(text, p + Len(name) + 3, p + Len(name) + 2 + Len(type)) = type

\* the text is the entries of all columns of decls, in their order, each
\* followed by comma and space except the last
SchemaTextOf(text, decls) ==
    LET n == Len(decls) IN
    IF n = 0 THEN text = <<>>
    ELSE /\ Len(text) = EntryStart(decls, n) + Len(decls[n][1])
                        + Len(decls[n][2]) + 2
         /\ \A i \in 1..n :
                EntryAt(text, EntryStart(decls, i), decls[i][1], decls[i][2])
         /\ \A i \in 1..(n - 1) :
                /\ text[EntryStart(decls, i + 1) - 2] = ","
                /\ text[EntryStart(decls, i + 1) - 1] = " "

AgeHospitalText ==
    << QUOTE, "A", "g", "e", QUOTE, " ", "I", "N", "T", "E", "G", "E", "R",
       ",", " ",
       QUOTE, "H", "o", "s", "p", "i", "t", "a", "l", QUOTE, " ",
       "T", "E", "X", "T" >>

\* C12: the schema text built for the prompt is the entries "name" TYPE of
\* all columns of the table, one per column, in the store's column order,
\* joined by comma and space; for Age INTEGER, Hospital TEXT it is exactly
\* "Age" INTEGER, "Hospital" TEXT.
C12_SchemaTextFormat ==
    (pc \in {"execute", "raised"} /\ TABLE_NAME \in DOMAIN tables) =>
        /\ SchemaTextOf(formatted_schema, tables[TABLE_NAME])
        /\ (tables[TABLE_NAME] = << <<Age, INTEGER>>, <<Hospital, TEXT>> >>
                => formatted_schema = AgeHospitalText)

C12_Witness ==
    /\ pc = "execute"
    /\ TABLE_NAME \in DOMAIN tables
    /\ tables[TABLE_NAME] = << <<Age, INTEGER>>, <<Hospital, TEXT>> >>
    /\ Len(table_schema) = 2
    /\ formatted_schema = AgeHospitalText

\* the positions inside the handling of one question
InQuestion == {"generate", "execute", "correct", "validate", "returned"}

\* C13: the line exit ends the read loop and no question is handled for it;
\* every other line is handled as one question, the line itself; input() is
\* only reached again from a returned execute_sql_query whose result has
\* been printed.
C13_ReadLoop ==
    [][ /\ (pc = "input" /\ user_prompt' = "exit") =>
                /\ pc' = "exited"
                /\ UNCHANGED <<user_question, query, attempt, execCalls,
                               repairCalls, validatorCalls, output>>
        /\ (pc = "input" /\ user_prompt' # "exit") =>
                /\ pc' = "generate"
                /\ user_question' = user_prompt'
                /\ execCalls' = 0
        /\ pc' \in InQuestion => user_question' = user_prompt'
        /\ pc' = "input" => (pc = "returned" /\ output' = response) ]_vars

C13_Witness ==
    /\ pc = "input"
    /\ user_prompt = "how many patients"
    /\ user_question = "how many patients"
    /\ execCalls = 2
    /\ output = << <<2, "b">>, <<1, "a">> >>

\* C14: at every run_sql_query call of a question attempt equals the number
\* of run_sql_query calls made so far, this one included (1 at the first
\* call), the number of correct_sql_query calls made so far is
\* attempt - 1, and every repair cycle raises attempt by exactly 1.
C14_AttemptCounter ==
    [][ /\ (pc = "execute" /\ execCalls' # execCalls) =>
                /\ attempt = execCalls'
                /\ repairCalls = attempt - 1
                /\ (execCalls = 0 => attempt = 1)
        /\ (pc = "validate" /\ pc' = "execute") => attempt' = attempt + 1
        /\ (pc \in {"execute", "correct"}) => attempt' = attempt ]_vars

C14_Witness ==
    /\ pc = "correct"
    /\ lastExec.attempt = 3
    /\ attempt = 3
    /\ execCalls = 3
    /\ repairCalls = 2

\* C15: after a failed run_sql_query call with attempt >= max_attempts the
\* loop returns the empty sequence without a correct_sql_query or
\* is_valid_sql call; correct_sql_query and is_valid_sql are only called
\* while attempt < max_attempts.
C15_BudgetBeforeRepair ==
    [][ /\ (pc = "correct" /\ repairCalls' # repairCalls) =>
                attempt < max_attempts
        /\ (pc = "validate" /\ validatorCalls' # validatorCalls) =>
                attempt < max_attempts
        /\ (pc = "execute" /\ lastExec'.kind = "error"
                /\ attempt >= max_attempts) =>
                /\ pc' = "returned"
                /\ response' = <<>>
                /\ repairCalls' = repairCalls
                /\ validatorCalls' = validatorCalls
        /\ (pc = "execute" /\ lastExec'.kind = "error"
                /\ attempt < max_attempts) => pc' = "correct" ]_vars

C15_Witness ==
    /\ pc = "returned"
    /\ lastExec.kind = "error"
    /\ attempt = 2
    /\ max_attempts = 2
    /\ repairCalls = 1
    /\ validatorCalls = 1
    /\ response = <<>>

\* C16: correct_sql_query receives the candidate whose execution just failed
\* and the question the operator typed; the candidate run_sql_query gets on
\* attempt N + 1 is the string correct_sql_query returned on attempt N.
C16_CandidateThreading ==
    [][ /\ (pc = "correct" /\ repairCalls' # repairCalls) =>
                /\ lastExec.kind = "error"
                /\ lastExec.attempt = attempt
                /\ repairIn'.query = lastExec.query
                /\ repairIn'.user_question = user_prompt
        /\ (pc = "execute" /\ execCalls' # execCalls /\ attempt > 1) =>
                /\ lastExec'.attempt = attempt
                /\ lastExec'.query = corrected_query
                /\ repairIn.result = "text"
                /\ repairIn.attempt = attempt - 1
        /\ (pc \in {"execute", "correct", "validate"}) =>
                user_question' = user_question ]_vars

C16_Witness ==
    /\ pc = "correct"
    /\ lastExec.attempt = 2
    /\ lastExec.query = <<"A">>
    /\ corrected_query = <<"A">>
    /\ repairIn.attempt = 1
    /\ repairIn.query = <<"B">>
    /\ repairIn.user_question = "how many hospitals"

\* C19: when correct_sql_query returns the empty string the loop is over
\* with the empty sequence: no is_valid_sql call and no run_sql_query call
\* is made for it, and no exception is raised.
C19_EmptyRepair ==
    repairIn.result = "empty" =>
        /\ AfterLoop
        /\ response = <<>>
        /\ exc = "none"
        /\ validatorCalls = repairCalls - 1
        /\ execCalls = repairIn.attempt
        /\ lastExec.attempt = repairIn.attempt

C19_Witness ==
    /\ repairIn.result = "empty"
    /\ pc = "returned"
    /\ repairCalls = 2
    /\ validatorCalls = 1
    /\ execCalls = 2
    /\ response = <<>>

\* C20: with max_attempts <= 1 (0 and negative values included) the loop
\* started at attempt 1 makes one run_sql_query call and no
\* correct_sql_query call, and returns the rows on success and the empty
\* sequence on failure; when everything fails the number of run_sql_query
\* calls is max(1, max_attempts).
C20_SmallBudgets ==
    /\ (max_attempts <= 1 /\ pc # "idle") =>
          /\ pc \in {"execute", "returned"}
          /\ repairCalls = 0
          /\ validatorCalls = 0
          /\ (pc = "execute" => execCalls = 0)
          /\ (pc = "returned" =>
                /\ execCalls = 1
                /\ (lastExec.kind = "rows" => response = lastExec.returned)
                /\ (lastExec.kind = "error" => response = <<>>))
    /\ AllFailedAllRepaired => execCalls = Max(1, max_attempts)

C20_Witness ==
    /\ pc = "returned"
    /\ max_attempts = 0 - 1
    /\ lastExec.kind = "error"
    /\ execCalls = 1
    /\ repairCalls = 0
    /\ response = <<>>

\* C17: every question starts its loop at attempt 1 with the whole budget of
\* 30 and with its own candidate, whatever attempt the previous question
\* ended at and however it ended.
C17_NoStateAcrossQuestions ==
    [][ (pc = "generate" /\ pc' = "execute") =>
            /\ attempt' = 1
            /\ max_attempts' = 30
            /\ query' = CleanAnswer(answer')
            /\ execCalls' = 0
            /\ repairCalls' = 0 ]_vars

C17_Witness ==
    /\ pc = "execute"
    /\ prev_attempt = 2
    /\ output = <<>>
    /\ execCalls = 0
    /\ attempt = 1
    /\ max_attempts = 30

\* C18 as stated: every call of the loop eventually reaches Done, that is,
\* execute_sql_query returns (rows after a success, the empty sequence after
\* budget exhaustion or a rejected repair).
C18_ReachesDone == (pc = "execute") ~> (pc = "returned")

\* C18 amended: every call of the loop eventually ends, by returning (after
\* a success, budget exhaustion, a rejected or an empty repair) or by the
\* exception of a failed correct_sql_query call leaving it; the loop never
\* repeats forever.
C18_RunToCompletion == (pc = "execute") ~> (pc \in {"returned", "raised"})

C18_Witness ==
    /\ pc = "returned"
    /\ max_attempts = 30
    /\ attempt = 30
    /\ execCalls = 30
    /\ repairCalls = 29
    /\ lastExec.kind = "error"

====
